---- MODULE Spec2Model ----
(***************************************************************************)
(* GerbX: the Gerber interpreter GerberToPath.convert (vectorUtils.ts),    *)
(* and the vector operations VectorProcessor.invert / .mirror              *)
(* (vectorProcessor.ts).                                                   *)
(*                                                                         *)
(* Numbers.  A JavaScript number holding millimetres is modelled as an     *)
(* integer count of micrometre units (1 unit = 10^-6 mm), which represents *)
(* exactly every value a coordinate token with up to 6 decimal digits      *)
(* decodes to.  toFixed(3) keeps 3 decimals, so a coordinate of an emitted *)
(* path is an integer count of 10^-3 mm.                                   *)
(***************************************************************************)
EXTENDS Integers, Sequences, FiniteSets, TLC

\* ------------------------------------------------------------------------
\* Bounds of the model
\* ------------------------------------------------------------------------

\* number of blocks of the input text that the interpreter loop processes
MaxBlocks == 3

\* ------------------------------------------------------------------------
\* Arithmetic helpers
\* ------------------------------------------------------------------------

Abs(n) == IF n < 0 THEN -n ELSE n

Sgn(n) == IF n < 0 THEN -1 ELSE IF n > 0 THEN 1 ELSE 0

Max2(a, b) == IF a > b THEN a ELSE b

Min2(a, b) == IF a < b THEN a ELSE b

\* Math.pow(10, n)
RECURSIVE Pow10(_)
Pow10(n) == IF n <= 0 THEN 1 ELSE 10 * Pow10(n - 1)

\* a / b rounded to the nearest integer, halves away from zero (b > 0)
RoundDiv(a, b) ==
    IF a >= 0 THEN (2 * a + b) \div (2 * b) ELSE -((2 * (-a) + b) \div (2 * b))

\* truncating division (toward zero), b > 0
TruncDiv(a, b) == IF a >= 0 THEN a \div b ELSE -((-a) \div b)

RECURSIVE GCD(_, _)
GCD(a, b) == IF b = 0 THEN a ELSE GCD(b, a % b)

\* floor(sqrt(n)) by bisection on [lo, hi]
RECURSIVE ISqrtIn(_, _, _)
ISqrtIn(n, lo, hi) ==
    IF lo >= hi THEN lo
    ELSE LET mid == (lo + hi + 1) \div 2
         IN  IF mid * mid <= n THEN ISqrtIn(n, mid, hi) ELSE ISqrtIn(n, lo, mid - 1)

ISqrt(n) == ISqrtIn(n, 0, 46340)

\* Number.prototype.toFixed(3): micrometre units -> units of 10^-3 mm
ToFixed3(v) == RoundDiv(v, 1000)

\* ------------------------------------------------------------------------
\* Coordinate tokens: the text after an 'X' or 'Y', as matched by
\* /^([-+]?\d*\.?\d+)/.  neg: a leading '-'; ip, iw: the digits before the
\* point as a number and their count; pt: a literal '.'; fp, fw: the digits
\* after the point and their count.  NoTok: the regex does not match.
\* ------------------------------------------------------------------------

Tok(neg, ip, iw, pt, fp, fw) ==
    [neg |-> neg, ip |-> ip, iw |-> iw, pt |-> pt, fp |-> fp, fw |-> fw]

NoTok == Tok(FALSE, 0, 0, FALSE, 0, 0)

IntTok(n, w) == Tok(FALSE, n, w, FALSE, 0, 0)

DecTok(ip, iw, fp, fw) == Tok(FALSE, ip, iw, TRUE, fp, fw)

\* the digit count that means "no format spec matched"
NoK == -1

\* the D field of a block that has no 'D'
NoD == -1

\* dCode === null
NullD == 0

\* ------------------------------------------------------------------------
\* GerberToPath.convert: the input text
\*
\* The text is cut at every '*' (lines 106-107); each piece is a block.
\* A block is described by what the loop body reads from it:
\*   pct   the trimmed block starts with '%' (a parameter block, or the
\*         block that follows the closing '%' of one: "...*%" leaves the
\*         '%' at the head of the next piece)
\*   junk  the block is no well-formed Gerber block (arbitrary text)
\*   g00, g01, g36, g37   block.includes('G00') ...
\*   x, y  the token after the first 'X' / 'Y'
\*   d     the number after the first 'D' (NoD: there is none)
\* ------------------------------------------------------------------------

Block(pct, junk, gs, x, y, d) ==
    [pct |-> pct, junk |-> junk,
     g00 |-> "G00" \in gs, g01 |-> "G01" \in gs,
     g36 |-> "G36" \in gs, g37 |-> "G37" \in gs,
     x |-> x, y |-> y, d |-> d]

\* X<n>Y<n>D<d>* and X<n>Y<n>*
Op(x, y, d) == Block(FALSE, FALSE, {}, x, y, d)

\* G<nn>*
GBlock(g) == Block(FALSE, FALSE, {g}, NoTok, NoTok, NoD)

\* the block "%<NL>X<n>Y<n>D<d>" left by "...*%<NL>X<n>Y<n>D<d>*"
AfterPct(x, y, d) == Block(TRUE, FALSE, {}, x, y, d)

\* %MOMM and the like
PctPlain == Block(TRUE, FALSE, {}, NoTok, NoTok, NoD)

\* text such as "hello"
JunkPlain == Block(FALSE, TRUE, {}, NoTok, NoTok, NoD)

\* text such as "BOX5"
JunkX(x) == Block(FALSE, TRUE, {}, x, NoTok, NoD)

\* the blocks the model draws the input text from
BlockSet ==
    { Op(IntTok(0, 1), IntTok(0, 1), 2),
      Op(IntTok(100, 3), IntTok(0, 1), 1),
      Op(IntTok(100, 3), IntTok(0, 1), 2),
      Op(IntTok(30, 2), IntTok(40, 2), 1),
      Op(IntTok(100, 3), IntTok(0, 1), NoD),
      Op(DecTok(10, 2, 0, 1), NoTok, NoD),
      Op(IntTok(30, 2), IntTok(40, 2), 3),
      GBlock("G00"), GBlock("G01"), GBlock("G36"), GBlock("G37"),
      Block(FALSE, FALSE, {"G36"}, IntTok(0, 1), IntTok(0, 1), 2),
      Op(NoTok, NoTok, 11),
      PctPlain,
      AfterPct(IntTok(30, 2), IntTok(40, 2), 2),
      JunkPlain,
      JunkX(IntTok(5, 1)) }

\* the aperture codes of the model
ToolCodes == {10, 11}

\* the aperture tables the pre-pass (lines 43-51) can build from the
\* %ADD<code>C,<diameter>*% statements of the text: code -> diameter in
\* micrometre units, 0 for a code with no statement (apertures[code] is
\* undefined)
ApertureTables ==
    { [t \in ToolCodes |-> 0],
      [t \in ToolCodes |-> IF t = 10 THEN 1000000 ELSE 0],
      [t \in ToolCodes |-> IF t = 10 THEN 1000000 ELSE 500000] }

\* the decimal-digit counts a %FS statement of the text declares
\* (NoK: the text has no %FS statement)
DeclaredDigits == {NoK, 1}

\* the decimal-digit count when no %FS statement is found (line 78)
DefaultDecimalPlaces == 6

\* apertures[currentTool] || 0.2 (line 229)
DefaultStrokeWidth == 200000

\* apertures[currentTool] || 0.4 (line 266)
DefaultFlashWidth == 400000

\* len > 0.001 (line 234)
MinSegmentLength == 1000

\* let currentTool = '10' (line 17)
DefaultTool == 10

\* ------------------------------------------------------------------------
\* GerberToPath.convert: state
\* ------------------------------------------------------------------------

VARIABLES
    apertures,       \* the table built by the pre-pass (lines 43-51)
    fsMatch,         \* the digit count the %FS statement declares, or NoK
    decimalPlaces,   \* from the %FS statement, or the default (lines 78-98)
    isIncremental,   \* line 102
    divisor,         \* line 100, reassigned at line 123
    currentX, currentY, lastX, lastY,
    hasLastPoint, isFirstMove, currentTool, lastDCode, isRegionMode,
    pathDataArray,   \* the emitted commands, in order
    minX, minY, maxX, maxY, hasAnyPoint,
    nblocks,         \* how many blocks the loop has processed
    step,            \* what the last iteration read, decoded and emitted
    mirrorIn, mirrorBounds, mirrorOut, mirrorCount,
    traceIn, invertBounds, padding, invertArg, invertOut, invertCount,
    invertFault,
    layerIn,         \* the layer handed to the callback of layers.map
    boardIn,         \* the bounds handed to processLayers
    layerOut,        \* the processed layer
    layerRun,        \* what paper.js did in the call, "none" before it
    macroDef,        \* macros[toolObj.shape]: the blocks of the flashed macro
    flashAt,         \* the coordinates of the flash operation
    unitScale,       \* in tenths: 10 (mm) or 254 (inch)
    svgContent,      \* the elements emitted so far
    renderBounds,    \* minX, minY, maxX, maxY of renderGerberWithCustomParser
    flashCount,      \* how many flashes were rendered
    layers,          \* App's layers state: how many layers, which edit
    effectDue,       \* a render changed layers, its effect has not run
    inFlight,        \* processLayers invocations waiting in their 50 ms
    processedLayers, \* useProcessor's processedLayers state
    isProcessing,    \* useProcessor's isProcessing state
    arcIn,           \* the arguments of a getArcPath call
    arcOut,          \* its swept angle and the command it returns
    arcCount         \* how many calls were made

convertVars ==
    <<apertures, fsMatch, decimalPlaces, isIncremental, divisor, currentX, currentY,
      lastX, lastY, hasLastPoint, isFirstMove, currentTool, lastDCode,
      isRegionMode, pathDataArray, minX, minY, maxX, maxY, hasAnyPoint,
      nblocks, step>>

mirrorVars == <<mirrorIn, mirrorBounds, mirrorOut, mirrorCount>>

invertVars ==
    <<traceIn, invertBounds, padding, invertArg, invertOut, invertCount,
      invertFault>>

layerVars == <<layerIn, boardIn, layerOut, layerRun>>

macroVars ==
    <<macroDef, flashAt, unitScale, svgContent, renderBounds, flashCount>>

hostVars == <<layers, effectDue, inFlight, processedLayers, isProcessing>>

arcVars == <<arcIn, arcOut, arcCount>>

vars ==
    <<convertVars, mirrorVars, invertVars, layerVars, macroVars, hostVars,
      arcVars>>

\* ------------------------------------------------------------------------
\* GerberToPath.convert: the loop body
\* ------------------------------------------------------------------------

\* path commands; coordinates in units of 10^-3 mm
MoveTo(x, y) == [c |-> "M", a |-> <<x, y>>]

LineTo(x, y) == [c |-> "L", a |-> <<x, y>>]

ArcTo(rx, ry, rot, large, sweep, x, y) ==
    [c |-> "A", a |-> <<rx, ry, rot, large, sweep, x, y>>]

ClosePath == [c |-> "Z", a |-> <<>>]

\* upperBlock.match(/X(\d)(\d)Y(\d)(\d)/) (line 121): an 'X' followed by
\* exactly two digits, then a 'Y' followed by at least two digits; the
\* result is the second digit after the 'X'
LooseFormatDigits(b) ==
    IF /\ ~b.x.neg /\ ~b.x.pt /\ b.x.iw = 2
       /\ ~b.y.neg /\ b.y.iw >= 2
    THEN b.x.ip % 10
    ELSE NoK

\* parseFloat(match[1]), then match[1].includes('.') ? val : val / divisor
\* (lines 166-167, 178-179); the result in micrometre units
DecodeToken(t, div) ==
    LET mag == IF t.pt
               THEN (t.ip * Pow10(t.fw) + t.fp) * Pow10(6 - t.fw)
               ELSE (t.ip * 1000000) \div div
    IN  IF t.neg THEN -mag ELSE mag

\* apertures[tool]; 0 stands for undefined
ApertureOf(tool) == IF tool \in DOMAIN apertures THEN apertures[tool] ELSE 0

\* len > 0.001 (lines 232, 234)
IsLongSegment(dx, dy) ==
    IF Abs(dx) > MinSegmentLength \/ Abs(dy) > MinSegmentLength THEN TRUE
    ELSE dx * dx + dy * dy > MinSegmentLength * MinSegmentLength

\* a faulty variant of StrokeNormal that offsets by the whole width w
\* instead of w / 2 (exact for axis-parallel directions, zero otherwise)
StrokeNormalFullWidth(dx, dy, w) ==
    IF dy = 0 THEN <<0, Sgn(dx) * w>>
    ELSE IF dx = 0 THEN <<(-Sgn(dy)) * w, 0>>
    ELSE <<0, 0>>

\* nx = (-dy / len) * (w / 2), ny = (dx / len) * (w / 2) (lines 232-236),
\* in micrometre units.  The direction is reduced by its gcd; when its
\* length is then an integer (axis-parallel and Pythagorean directions)
\* the result is exact, otherwise the square root is taken on the
\* direction rescaled to 4 digits and the result is rounded to 10^-3 mm.
StrokeNormal(dx, dy, w) ==
    LET h  == w \div 2
        g  == GCD(Abs(dx), Abs(dy))
        ux == dx \div g
        uy == dy \div g
        m  == Max2(Abs(ux), Abs(uy))
        s2 == ux * ux + uy * uy
        r  == ISqrt(s2)
    IN  IF m <= 1000 /\ r * r = s2
        THEN <<RoundDiv((-uy) * h, r), RoundDiv(ux * h, r)>>
        ELSE LET vx == IF m > 10000 THEN TruncDiv(ux, (m \div 10000) + 1)
                       ELSE ux * (10000 \div m)
                 vy == IF m > 10000 THEN TruncDiv(uy, (m \div 10000) + 1)
                       ELSE uy * (10000 \div m)
                 rr == ISqrt(vx * vx + vy * vy)
                 hm == RoundDiv(h, 1000)
             IN  <<1000 * RoundDiv((-vy) * hm, rr),
                   1000 * RoundDiv(vx * hm, rr)>>

\* the thick track of lines 228-259: the commands pushed for a draw from
\* (lx, ly) to (cx, cy) with the tool `tool`
StrokeCommands(lx, ly, cx, cy, tool) ==
    LET w  == IF ApertureOf(tool) # 0 THEN ApertureOf(tool)
              ELSE DefaultStrokeWidth
        dx == cx - lx
        dy == cy - ly
        xF == ToFixed3(cx)
        yF == ToFixed3(cy)
    IN  IF IsLongSegment(dx, dy)
        THEN LET n  == StrokeNormal(dx, dy, w)
                 nx == n[1]
                 ny == n[2]
             IN  IF ApertureOf(tool) > 0
                 THEN << MoveTo(ToFixed3(lx + nx), ToFixed3(ly + ny)),
                         LineTo(ToFixed3(cx + nx), ToFixed3(cy + ny)),
                         LineTo(ToFixed3(cx - nx), ToFixed3(cy - ny)),
                         LineTo(ToFixed3(lx - nx), ToFixed3(ly - ny)),
                         ClosePath,
                         MoveTo(xF, yF) >>
                 ELSE << LineTo(xF, yF) >>
        ELSE << LineTo(xF, yF) >>

\* the flash of lines 264-271
FlashCommands(cx, cy, tool) ==
    LET w  == IF ApertureOf(tool) # 0 THEN ApertureOf(tool)
              ELSE DefaultFlashWidth
        r  == w \div 2
        rF == ToFixed3(r)
        xL == ToFixed3(cx - r)
        xR == ToFixed3(cx + r)
        yF == ToFixed3(cy)
    IN  << MoveTo(xL, yF),
           ArcTo(rF, rF, 0, 1, 0, xR, yF),
           ArcTo(rF, rF, 0, 1, 0, xL, yF),
           ClosePath >>

\* the state an iteration starts from, as recorded in `step`
PreState ==
    [currentX |-> currentX, currentY |-> currentY,
     lastX |-> lastX, lastY |-> lastY,
     hasLastPoint |-> hasLastPoint, isFirstMove |-> isFirstMove,
     currentTool |-> currentTool, lastDCode |-> lastDCode,
     isRegionMode |-> isRegionMode, divisor |-> divisor,
     hasAnyPoint |-> hasAnyPoint, npath |-> Len(pathDataArray),
     dSeen |-> step.dSeen, lastOp |-> step.lastOp]

\* how an iteration ended: "param" (line 125), "tool" (line 131), "run"
\* (the end of the loop body); "none" before the first iteration
\* prev: the iteration before; garbage: every block so far is junk; dSeen:
\* some block so far has set dCode from its D field (lines 202-205);
\* toolSeen: some block so far has selected a tool (line 130);
\* regionFrom: the length of pathDataArray when the last region was
\* opened (line 146); lastOp: the operation of the last block that emitted
\* (lines 216, 222, 264), NullD while there is none
Observation(b, how, xVal, yVal, effOp, emitted) ==
    [blk |-> b, how |-> how, pre |-> PreState,
     xVal |-> xVal, yVal |-> yVal, effectiveOp |-> effOp, emit |-> emitted,
     prev |-> [blk |-> step.blk, how |-> step.how],
     garbage |-> (step.garbage /\ b.junk),
     dSeen |-> (step.dSeen \/ (how = "run" /\ b.d \in {1, 2, 3})),
     toolSeen |-> (step.toolSeen \/ how = "tool"),
     regionFrom |-> IF how = "run" /\ b.g36 /\ ~b.g37 /\ ~isRegionMode
                    THEN Len(pathDataArray) ELSE step.regionFrom,
     lastOp |-> IF how = "run" /\ effOp # NullD THEN effOp ELSE step.lastOp]

\* a faulty variant of EffectiveOp in which a block without a D-code
\* always moves, whatever the code set before
EffectiveOpNotModal(dCode, lastD) == IF dCode # NullD THEN dCode ELSE 2

\* const effectiveOp = dCode !== null ? dCode : lastDCode (line 209)
EffectiveOp(dCode, lastD) == IF dCode # NullD THEN dCode ELSE lastD

\* a faulty variant of FirstMoveAfter in which a flash leaves the flag as
\* the operation before it set it
FirstMoveAfterFlashKept(effOp, was) == IF effOp = 3 THEN was ELSE FALSE

\* isFirstMove after a block that emitted: false after a move or a draw
\* (lines 218, 225), true after a flash (line 272)
FirstMoveAfter(effOp, was) == effOp = 3

\* a faulty variant of IsPlainDraw that forgets the region mode
IsPlainDrawOutsideRegion(first, region, hasLast) == first \/ ~hasLast

\* isFirstMove || isRegionMode || !hasLastPoint (line 223)
IsPlainDraw(first, region, hasLast) == first \/ region \/ ~hasLast

\* lines 119-126: a block that starts with '%'
ParameterBlock(b) ==
    /\ b.pct
    /\ divisor' = IF LooseFormatDigits(b) # NoK
                  THEN Pow10(LooseFormatDigits(b)) ELSE divisor
    /\ step' = Observation(b, "param", 0, 0, NullD, <<>>)
    /\ UNCHANGED <<currentX, currentY, lastX, lastY, hasLastPoint,
                   isFirstMove, currentTool, lastDCode, isRegionMode,
                   pathDataArray, minX, minY, maxX, maxY, hasAnyPoint>>

\* lines 128-132: a block with D<n>, n >= 10
ToolSelectBlock(b) ==
    /\ ~b.pct
    /\ b.d >= 10
    /\ currentTool' = b.d
    /\ step' = Observation(b, "tool", 0, 0, NullD, <<>>)
    /\ UNCHANGED <<divisor, currentX, currentY, lastX, lastY, hasLastPoint,
                   isFirstMove, lastDCode, isRegionMode,
                   pathDataArray, minX, minY, maxX, maxY, hasAnyPoint>>

\* lines 134-274: every other block
OperationBlock(b) ==
    /\ ~b.pct
    /\ b.d < 10
    /\ LET \* lines 138-143
           gD     == IF b.g00 THEN 2 ELSE NullD
           gLast  == IF b.g00 THEN 2 ELSE IF b.g01 THEN 1 ELSE lastDCode
           \* lines 145-151
           region == IF b.g37 THEN FALSE
                     ELSE IF b.g36 THEN TRUE ELSE isRegionMode
           closed == IF b.g37 THEN <<ClosePath>> ELSE <<>>
           \* lines 155-183
           xFound == b.x # NoTok
           yFound == b.y # NoTok
           xVal   == IF xFound THEN DecodeToken(b.x, divisor) ELSE 0
           yVal   == IF yFound THEN DecodeToken(b.y, divisor) ELSE 0
           rel    == isIncremental /\ ~isFirstMove
           newX   == IF ~xFound THEN currentX
                     ELSE IF rel THEN currentX + xVal ELSE xVal
           newY   == IF ~yFound THEN currentY
                     ELSE IF rel THEN currentY + yVal ELSE yVal
           found  == xFound \/ yFound
           \* lines 185-195
           cx     == IF found THEN newX ELSE currentX
           cy     == IF found THEN newY ELSE currentY
           \* lines 198-206
           isD    == b.d \in {1, 2, 3}
           dCode  == IF isD THEN b.d ELSE gD
           last2  == IF isD THEN b.d ELSE gLast
           effOp  == EffectiveOp(dCode, last2)
           emits  == found \/ dCode # NullD
           xF     == ToFixed3(cx)
           yF     == ToFixed3(cy)
           plain  == IsPlainDraw(isFirstMove, region, hasLastPoint)
           out    == IF ~emits THEN <<>>
                     ELSE IF effOp = 2 THEN <<MoveTo(xF, yF)>>
                     ELSE IF effOp = 1
                     THEN IF plain
                          THEN IF isFirstMove \/ ~hasLastPoint
                               THEN <<MoveTo(xF, yF)>>
                               ELSE <<LineTo(xF, yF)>>
                          ELSE StrokeCommands(lastX, lastY, cx, cy, currentTool)
                     ELSE FlashCommands(cx, cy, currentTool)
       IN  /\ currentX' = cx
           /\ currentY' = cy
           /\ hasAnyPoint' = (hasAnyPoint \/ found)
           /\ minX' = IF ~found THEN minX
                      ELSE IF hasAnyPoint THEN Min2(minX, cx) ELSE cx
           /\ minY' = IF ~found THEN minY
                      ELSE IF hasAnyPoint THEN Min2(minY, cy) ELSE cy
           /\ maxX' = IF ~found THEN maxX
                      ELSE IF hasAnyPoint THEN Max2(maxX, cx) ELSE cx
           /\ maxY' = IF ~found THEN maxY
                      ELSE IF hasAnyPoint THEN Max2(maxY, cy) ELSE cy
           /\ lastDCode' = last2
           /\ isRegionMode' = region
           /\ pathDataArray' = pathDataArray \o closed \o out
           /\ isFirstMove' = IF ~emits THEN isFirstMove
                             ELSE FirstMoveAfter(effOp, isFirstMove)
           /\ hasLastPoint' = IF emits /\ effOp \in {1, 2} THEN TRUE
                              ELSE hasLastPoint
           /\ lastX' = IF emits /\ effOp \in {1, 2} THEN cx ELSE lastX
           /\ lastY' = IF emits /\ effOp \in {1, 2} THEN cy ELSE lastY
           /\ step' = Observation(b, "run", xVal, yVal,
                                  IF emits THEN effOp ELSE NullD,
                                  closed \o out)
    /\ UNCHANGED <<divisor, currentTool>>

\* one iteration of the loop of lines 113-275
ProcessBlock ==
    /\ nblocks < MaxBlocks
    /\ \E b \in BlockSet :
          \/ ParameterBlock(b)
          \/ ToolSelectBlock(b)
          \/ OperationBlock(b)
    /\ nblocks' = nblocks + 1
    /\ UNCHANGED <<apertures, fsMatch, decimalPlaces, isIncremental>>
    /\ UNCHANGED <<mirrorVars, invertVars, layerVars, macroVars, hostVars,
                 arcVars>>

\* lines 277-284: what convert returns for the text processed so far;
\* path in units of 10^-3 mm, bounds in micrometre units
ZeroBounds == [x |-> 0, y |-> 0, width |-> 0, height |-> 0]

ConvertResult ==
    [path   |-> pathDataArray,
     bounds |-> IF hasAnyPoint
                THEN [x |-> minX, y |-> minY,
                      width |-> maxX - minX, height |-> maxY - minY]
                ELSE ZeroBounds]

\* the state before the loop (lines 8-19, 43-111) for a text whose %FS
\* statement declares `k` digits (NoK: none) and whose %ADD statements
\* define `aps`
InitConvert ==
    /\ apertures \in ApertureTables
    /\ fsMatch \in DeclaredDigits
    /\ decimalPlaces = IF fsMatch = NoK THEN DefaultDecimalPlaces ELSE fsMatch
    /\ isIncremental \in BOOLEAN
    /\ divisor = Pow10(decimalPlaces)
    /\ currentX = 0 /\ currentY = 0 /\ lastX = 0 /\ lastY = 0
    /\ hasLastPoint = FALSE
    /\ isFirstMove = TRUE
    /\ currentTool = DefaultTool
    /\ lastDCode = 2
    /\ isRegionMode = FALSE
    /\ pathDataArray = <<>>
    /\ minX = 0 /\ minY = 0 /\ maxX = 0 /\ maxY = 0
    /\ hasAnyPoint = FALSE
    /\ nblocks = 0
    /\ step = [blk |-> PctPlain, how |-> "none",
               pre |-> [currentX |-> 0, currentY |-> 0, lastX |-> 0,
                        lastY |-> 0, hasLastPoint |-> FALSE,
                        isFirstMove |-> TRUE, currentTool |-> DefaultTool,
                        lastDCode |-> 2, isRegionMode |-> FALSE,
                        divisor |-> divisor, hasAnyPoint |-> FALSE,
                        npath |-> 0, dSeen |-> FALSE, lastOp |-> NullD],
               xVal |-> 0, yVal |-> 0, effectiveOp |-> NullD, emit |-> <<>>,
               prev |-> [blk |-> PctPlain, how |-> "none"],
               garbage |-> TRUE, dSeen |-> FALSE, toolSeen |-> FALSE,
               regionFrom |-> 0, lastOp |-> NullD]

\* ------------------------------------------------------------------------
\* VectorProcessor.mirror
\*
\* A path string is the sequence of its commands, as the regex of line 107
\* cuts it: a command letter and the operands that follow it, split at
\* white space and commas (line 121).  An operand is its parseFloat value
\* in micrometre units, so the number 1 is 1000000.
\* ------------------------------------------------------------------------

\* the number 1 (a flag that is set)
One == 1000000

PathCmd(letter, operands) == [c |-> letter, a |-> operands]

\* command.toUpperCase() === 'A' (line 127)
IsArc(letter) == letter \in {"A", "a"}

\* a faulty variant of MirrorX that shifts by the doubled center instead
\* of reflecting
MirrorXShift(center2, num) == 1000 * ToFixed3(center2 + num)

\* a faulty variant of MirrorOperand that takes the odd operand indexes of
\* a non-arc command for the X values
MirrorOperandOddIndex(isArc, idx, num, center2) ==
    IF isArc
    THEN IF idx = 4 THEN (IF num = 0 THEN One ELSE 0)
         ELSE IF idx = 5 THEN 1000 * ToFixed3(center2 - num)
         ELSE num
    ELSE IF idx % 2 = 1 THEN 1000 * ToFixed3(center2 - num) ELSE num

\* (centerX + (centerX - num)).toFixed(3), back in micrometre units;
\* center2 is 2 * centerX = 2 * bounds.x + bounds.width (lines 104, 142, 149)
MirrorX(center2, num) == 1000 * ToFixed3(center2 - num)

\* the callback of nums.map (lines 128-153); idx counts from 0
MirrorOperand(isArc, idx, num, center2) ==
    IF isArc
    THEN IF idx = 4 THEN (IF num = 0 THEN One ELSE 0)
         ELSE IF idx = 5 THEN MirrorX(center2, num)
         ELSE num
    ELSE IF idx % 2 = 0 THEN MirrorX(center2, num) ELSE num

\* one round of the loop of lines 112-156
MirrorCommand(cmd, center2) ==
    [c |-> cmd.c,
     a |-> [i \in 1 .. Len(cmd.a) |->
               MirrorOperand(IsArc(cmd.c), i - 1, cmd.a[i], center2)]]

\* VectorProcessor.mirror (lines 97-159)
Mirror(dPath, bounds) ==
    IF dPath = <<>> THEN <<>>
    ELSE IF bounds.width <= 0 THEN dPath
    ELSE [i \in 1 .. Len(dPath) |->
             MirrorCommand(dPath[i], 2 * bounds.x + bounds.width)]

\* the longest path the model mirrors
MaxMirrorLen == 2

\* the commands the model builds paths from
MirrorCommandSet ==
    { PathCmd("M", <<0, 0>>),
      PathCmd("M", <<1500000, 2000000, 3000000, -4000000>>),
      PathCmd("L", <<10000400, -3000700>>),
      PathCmd("l", <<2000000, 1000000>>),
      PathCmd("C", <<1000000, 2000000, 3000000, 4000000, 5000000, 6000000>>),
      PathCmd("A", <<500000, 500000, 0, One, 0, 5000000, 7000000>>),
      PathCmd("A", <<500000, 250000, 0, 0, One, 9000600, 7000000>>),
      PathCmd("A", <<One, One, 0, 0, One, 5000000, 5000000,
                     One, One, 0, 0, One, 9000000, 9000000>>),
      PathCmd("V", <<7000000>>),
      PathCmd("Z", <<>>) }

RECURSIVE SeqsUpTo(_, _)
SeqsUpTo(S, n) ==
    IF n = 0 THEN { <<>> }
    ELSE LET shorter == SeqsUpTo(S, n - 1)
         IN  shorter \cup { Append(q, e) : q \in shorter, e \in S }

\* the bounds the model mirrors about (micrometre units)
MirrorBoundsSet ==
    { [x |-> 0, width |-> 0],
      [x |-> 0, width |-> 10000000],
      [x |-> 1000000, width |-> 2001000],
      [x |-> -2000000, width |-> 1000] }

InitMirror ==
    /\ mirrorIn \in SeqsUpTo(MirrorCommandSet, MaxMirrorLen)
    /\ mirrorBounds \in MirrorBoundsSet
    /\ mirrorOut = mirrorIn
    /\ mirrorCount = 0

\* mirror is applied to the path, and then to its own result
MirrorStep ==
    /\ mirrorCount < 2
    /\ mirrorOut' = Mirror(mirrorOut, mirrorBounds)
    /\ mirrorCount' = mirrorCount + 1
    /\ UNCHANGED <<mirrorIn, mirrorBounds>>
    /\ UNCHANGED <<convertVars, invertVars, layerVars, macroVars, hostVars,
                 arcVars>>

\* ------------------------------------------------------------------------
\* VectorProcessor.invert
\*
\* Geometry is a set of unit cells of a grid; the string handed to invert
\* and the string it returns are described by their kind and by the cells
\* their fill covers:
\*   "empty"  the empty string        "blank"  white space only
\*   "path"   path data               "svg"    an SVG fragment ('<...')
\* The paper.js calls (importSVG, getItems, subtract, simplify, exportSVG)
\* are the environment: each call of invert draws their outcome.
\* ------------------------------------------------------------------------

\* the board area is GridW cells wide and GridH cells high; the sheet adds
\* a margin of one cell on every side, for the padding
GridW == 3

GridH == 2

Cells == (-1 .. GridW) \X (-1 .. GridH)

\* the cells of the rectangle [x0, x1) x [y0, y1)
Rectangle(x0, x1, y0, y1) ==
    { c \in Cells : x0 <= c[1] /\ c[1] < x1 /\ y0 <= c[2] /\ c[2] < y1 }

EmptyString == [kind |-> "empty", geom |-> {}]

PathData(g) == [kind |-> "path", geom |-> g]

\* new Path.Rectangle(Point(x - padding, y - padding),
\*                    Size(width + 2 padding, height + 2 padding)) (lines 74-77)
PlateOf(b, p) ==
    Rectangle(b.x - p, b.x + b.width + p, b.y - p, b.y + b.height + p)

\* what paper.js can do in one call of invert
\*   "importNull"    importSVG returns nothing (line 38)
\*   "importThrows"  importSVG raises
\*   "noItems"       no path item is found (line 71)
\*   "kernelThrows"  subtract, simplify or exportSVG raises
\*   "ok"            none of these
LibraryOutcomes(arg) ==
    {"ok", "importNull", "importThrows", "kernelThrows"}
        \cup (IF arg.kind = "svg" /\ arg.geom = {} THEN {"noItems"} ELSE {})

\* board.subtract(traces) (line 81)
Subtract(board, traces) == board \ traces

\* svg.match(/d="([^"]+)"/) ? dMatch[1] : '' (lines 84-87)
ExportedPath(clearance) ==
    IF clearance = {} THEN EmptyString ELSE PathData(clearance)

\* VectorProcessor.invert (lines 10-92) under the library outcome `lib`
Invert(arg, b, p, lib) ==
    IF arg.kind \in {"empty", "blank"} THEN EmptyString
    ELSE IF lib \in {"importNull", "importThrows", "kernelThrows"} THEN arg
    ELSE IF lib = "noItems" THEN arg
    ELSE ExportedPath(Subtract(PlateOf(b, p), arg.geom))

\* how the call ended: the library outcome, or "noPathData" when the
\* exported clearance holds no path data
FaultOf(arg, b, p, lib) ==
    IF arg.kind \in {"empty", "blank"} THEN "emptyInput"
    ELSE IF lib # "ok" THEN lib
    ELSE IF Subtract(PlateOf(b, p), arg.geom) = {} THEN "noPathData"
    ELSE "ok"

\* the strings, bounds and paddings the model inverts
TraceShapes ==
    { Rectangle(x0, x1, y0, y1) :
        x0 \in -1 .. GridW, x1 \in 0 .. GridW + 1,
        y0 \in -1 .. GridH, y1 \in 0 .. GridH + 1 }

TraceInputs ==
    { EmptyString, [kind |-> "blank", geom |-> {}] }
        \cup { [kind |-> k, geom |-> g] :
                  k \in {"path", "svg"}, g \in TraceShapes }

\* bounds on the board area, so that the padded plate lies on the sheet
InvertBoundsSet ==
    { b \in [x : 0 .. GridW - 1, y : 0 .. GridH - 1,
             width : 1 .. GridW, height : 1 .. GridH] :
        b.x + b.width <= GridW /\ b.y + b.height <= GridH }

PaddingSet == {0, 1}

InitInvert ==
    /\ traceIn \in TraceInputs
    /\ invertBounds \in InvertBoundsSet
    /\ padding \in PaddingSet
    /\ invertArg = traceIn
    /\ invertOut = traceIn
    /\ invertCount = 0
    /\ invertFault = <<>>

\* invert is applied to the trace, and then to its own result, with the
\* same bounds and padding; invertFault lists how each call ended
InvertStep ==
    /\ invertCount < 2
    /\ \E lib \in LibraryOutcomes(invertOut) :
          /\ invertOut' = Invert(invertOut, invertBounds, padding, lib)
          /\ invertFault' =
                Append(invertFault, FaultOf(invertOut, invertBounds, padding, lib))
    /\ invertArg' = invertOut
    /\ invertCount' = invertCount + 1
    /\ UNCHANGED <<traceIn, invertBounds, padding>>
    /\ UNCHANGED <<convertVars, mirrorVars, layerVars, macroVars, hostVars,
                 arcVars>>

\* ------------------------------------------------------------------------
\* processLayers: the callback of layers.map (useProcessor.ts lines 18-35)
\*
\* Layer content is path data, a sequence of path commands with operands
\* in micrometre units; '' is the empty sequence.  The traces of a layer
\* are one axis-parallel rectangle, written with absolute M and L.
\* ------------------------------------------------------------------------

Box(x, y, w, h) == [x |-> x, y |-> y, width |-> w, height |-> h]

Rect(x0, y0, x1, y1) == [x0 |-> x0, y0 |-> y0, x1 |-> x1, y1 |-> y1]

\* "M x0 y0 L x1 y0 L x1 y1 L x0 y1 Z"
RectPath(r) ==
    << PathCmd("M", <<r.x0, r.y0>>), PathCmd("L", <<r.x1, r.y0>>),
       PathCmd("L", <<r.x1, r.y1>>), PathCmd("L", <<r.x0, r.y1>>),
       PathCmd("Z", <<>>) >>

\* the rectangle importSVG reads from such path data
RectOf(path) == Rect(path[1].a[1], path[1].a[2], path[3].a[1], path[3].a[2])

\* the board rectangle of vectorProcessor.ts lines 74-77
PlateRect(b, p) ==
    Rect(b.x - p, b.y - p, b.x + b.width + p, b.y + b.height + p)

\* how the traces lie on the plate
Covers(t, pl) ==
    t.x0 <= pl.x0 /\ t.y0 <= pl.y0 /\ pl.x1 <= t.x1 /\ pl.y1 <= t.y1

StrictlyInside(t, pl) ==
    pl.x0 < t.x0 /\ pl.y0 < t.y0 /\ t.x1 < pl.x1 /\ t.y1 < pl.y1

Disjoint(t, pl) ==
    t.x1 <= pl.x0 \/ pl.x1 <= t.x0 \/ t.y1 <= pl.y0 \/ pl.y1 <= t.y0

\* the corners of a rectangle, in the order paper.js walks them when it
\* starts at corner `from` (0 .. 3) and turns `turn` (1 or 3) corners on
CornerOf(r, n) ==
    CASE n % 4 = 0 -> <<r.x0, r.y0>>
      [] n % 4 = 1 -> <<r.x1, r.y0>>
      [] n % 4 = 2 -> <<r.x1, r.y1>>
      [] n % 4 = 3 -> <<r.x0, r.y1>>

\* PathItem.getPathData of paper.js, as called by exportSVG (line 84): the
\* first point with M, every further segment relative to the point before
\* it (v dy, h dx, or l dx dy), the closing segment left to z
RelativeSegment(a, b) ==
    IF b[1] = a[1] THEN PathCmd("v", <<b[2] - a[2]>>)
    ELSE IF b[2] = a[2] THEN PathCmd("h", <<b[1] - a[1]>>)
    ELSE PathCmd("l", <<b[1] - a[1], b[2] - a[2]>>)

ContourData(r, from, turn) ==
    LET pt(i) == CornerOf(r, from + turn * i)
    IN  << PathCmd("M", pt(0)),
           RelativeSegment(pt(0), pt(1)),
           RelativeSegment(pt(1), pt(2)),
           RelativeSegment(pt(2), pt(3)),
           PathCmd("z", <<>>) >>

\* the ways paper.js may start and orient the two contours
ExportChoices ==
    [plateFrom : 0 .. 3, plateTurn : {1, 3}, holeFrom : 0 .. 3, holeTurn : {1, 3}]

\* the path data of board.subtract(traces) (lines 81-87) for a rectangle
\* of traces: nothing when the traces cover the plate, the plate when they
\* miss it, the plate and the hole when they lie inside it
ClearanceData(t, pl, ch) ==
    CASE Covers(t, pl) -> <<>>
      [] Disjoint(t, pl) /\ ~Covers(t, pl) ->
            ContourData(pl, ch.plateFrom, ch.plateTurn)
      [] StrictlyInside(t, pl) ->
            ContourData(pl, ch.plateFrom, ch.plateTurn)
                \o ContourData(t, ch.holeFrom, ch.holeTurn)

\* VectorProcessor.invert (lines 10-92) on path data
InvertPath(tracePathData, b, p, lib, ch) ==
    IF tracePathData = <<>> THEN <<>>
    ELSE IF lib # "ok" THEN tracePathData
    ELSE ClearanceData(RectOf(tracePathData), PlateRect(b, p), ch)

\* content.match(/[-+]?\d*\.?\d+/g) (part_004 line 327): every number of
\* the text, in order, whatever command it belongs to
RECURSIVE NumbersOf(_)
NumbersOf(path) ==
    IF path = <<>> THEN <<>> ELSE path[1].a \o NumbersOf(Tail(path))

\* GerberToPath.calculatePathBounds (part_004 lines 322-345): the numbers
\* are taken two by two as x and y
CalculatePathBounds(content) ==
    LET nums  == NumbersOf(content)
        pairs == { i \in 1 .. Len(nums) : i % 2 = 1 /\ i + 1 <= Len(nums) }
        xs    == { nums[i] : i \in pairs }
        ys    == { nums[i + 1] : i \in pairs }
        lowX  == CHOOSE v \in xs : \A u \in xs : v <= u
        lowY  == CHOOSE v \in ys : \A u \in ys : v <= u
        highX == CHOOSE v \in xs : \A u \in xs : u <= v
        highY == CHOOSE v \in ys : \A u \in ys : u <= v
    IN  IF pairs = {} THEN Box(0, 0, 0, 0)
        ELSE Box(lowX, lowY, highX - lowX, highY - lowY)

\* layer.invertPadding || 2 (useProcessor.ts line 26); 0 also stands for
\* a layer without the field
PaddingOf(layer) ==
    IF layer.invertPadding # 0 THEN layer.invertPadding ELSE 2 * One

\* the callback of layers.map (useProcessor.ts lines 18-35)
ProcessedLayer(layer, bounds, lib, ch) ==
    IF layer.inverted
    THEN LET inputContent == IF layer.simplifiedContent # <<>>
                             THEN layer.simplifiedContent ELSE layer.content
             content == InvertPath(inputContent, bounds, PaddingOf(layer),
                                   lib, ch)
         IN  [layer EXCEPT !.content = content,
                           !.bounds = CalculatePathBounds(content),
                           !.inverted = FALSE]
    ELSE layer

\* the traces, boards and paddings of the model, in mm
LayerTraces ==
    { Rect(4 * One, 4 * One, 6 * One, 6 * One),
      Rect(One, 2 * One, 3 * One, 5 * One),
      Rect(-5 * One, -5 * One, 15 * One, 15 * One),
      Rect(20 * One, 20 * One, 22 * One, 22 * One) }

BoardBoundsSet ==
    { Box(0, 0, 10 * One, 10 * One), Box(0, One, 8 * One, 6 * One) }

LayerPaddings == {0, One \div 2, One}

NoChoice == [plateFrom |-> 0, plateTurn |-> 1, holeFrom |-> 0, holeTurn |-> 1]

InitLayers ==
    /\ \E t \in LayerTraces, s \in LayerTraces \cup {Rect(0, 0, 0, 0)},
          inv \in BOOLEAN, pad \in LayerPaddings :
          layerIn = [content |-> RectPath(t),
                     simplifiedContent |->
                         IF s = Rect(0, 0, 0, 0) THEN <<>> ELSE RectPath(s),
                     bounds |-> Box(t.x0, t.y0, t.x1 - t.x0, t.y1 - t.y0),
                     inverted |-> inv,
                     invertPadding |-> pad]
    /\ boardIn \in BoardBoundsSet
    /\ layerOut = layerIn
    /\ layerRun = [lib |-> "none", ch |-> NoChoice]

\* one call of the callback; paper.js either fails or exports the
\* clearance in one of its ways
ProcessLayer ==
    /\ layerRun.lib = "none"
    /\ \E lib \in {"ok", "importNull", "importThrows", "kernelThrows"},
          ch \in ExportChoices :
          /\ layerOut' = ProcessedLayer(layerIn, boardIn, lib, ch)
          /\ layerRun' = [lib |-> lib, ch |-> ch]
    /\ UNCHANGED <<layerIn, boardIn>>
    /\ UNCHANGED <<convertVars, mirrorVars, invertVars, macroVars, hostVars,
                 arcVars>>

IdleLayers ==
    /\ layerIn = [content |-> <<>>, simplifiedContent |-> <<>>,
                  bounds |-> Box(0, 0, 0, 0), inverted |-> FALSE,
                  invertPadding |-> 0]
    /\ boardIn = Box(0, 0, 0, 0)
    /\ layerOut = layerIn
    /\ layerRun = [lib |-> "none", ch |-> NoChoice]

\* ------------------------------------------------------------------------
\* renderGerberWithCustomParser: the flash of a macro aperture
\* (part_003 lines 299-406, 440-445, 482-489)
\*
\* Lengths are integers in units of 10^-4 of the file's unit.  A JavaScript
\* number is a record: nan for NaN (what arithmetic makes of undefined),
\* v for its value otherwise.
\* ------------------------------------------------------------------------

Num(v) == [nan |-> FALSE, v |-> v]

NaN == [nan |-> TRUE, v |-> 0]

Plus(a, b) == IF a.nan \/ b.nan THEN NaN ELSE Num(a.v + b.v)

Minus(a, b) == IF a.nan \/ b.nan THEN NaN ELSE Num(a.v - b.v)

Half(a) == IF a.nan THEN NaN ELSE Num(a.v \div 2)

\* a field of a macro block as gerber-parser hands it over: a number
\* ("num"), an expression that yields v ("fn"), an expression that throws
\* ("throws"), or no such field ("missing")
Lit(v) == [k |-> "num", v |-> v]

Fn(v) == [k |-> "fn", v |-> v]

Throws == [k |-> "throws", v |-> 0]

Missing == [k |-> "missing", v |-> 0]

\* evaluate (lines 299-304)
Evaluate(val) ==
    CASE val.k = "fn" -> Num(val.v)
      [] val.k = "throws" -> Num(0)
      [] val.k = "num" -> Num(val.v)
      [] val.k = "missing" -> NaN

\* a || b on fields: undefined and the number 0 are falsy
OrElse(a, b) ==
    IF a.k = "missing" \/ (a.k = "num" /\ a.v = 0) THEN b ELSE a

\* toMM (line 278) and fmt (line 279): n * unitScale, written with the
\* four decimals of the unit of the model
ToMM(n) == IF n.nan THEN NaN ELSE Num(RoundDiv(n.v * unitScale, 10))

Fmt(n) == ToMM(n)

\* macro blocks
BlankBlock ==
    [type |-> "", dia |-> Missing, diameter |-> Missing, x |-> Missing,
     cx |-> Missing, y |-> Missing, cy |-> Missing, width |-> Missing,
     height |-> Missing, x1 |-> Missing, y1 |-> Missing, x2 |-> Missing,
     y2 |-> Missing, points |-> <<>>]

CirclePrim(dia, cx, cy) ==
    [BlankBlock EXCEPT !.type = "circle", !.dia = dia, !.cx = cx, !.cy = cy]

VectPrim(width, x1, y1, x2, y2) ==
    [BlankBlock EXCEPT !.type = "vect", !.width = width, !.x1 = x1,
                       !.y1 = y1, !.x2 = x2, !.y2 = y2]

OutlinePrim(points) ==
    [BlankBlock EXCEPT !.type = "outline", !.points = points]

RectPrim(width, height, cx, cy) ==
    [BlankBlock EXCEPT !.type = "rect", !.width = width, !.height = height,
                       !.cx = cx, !.cy = cy]

OtherPrim(type) == [BlankBlock EXCEPT !.type = type]

\* minX = Infinity, ... (line 269): a bound is unset until a number
\* passes its comparison
Unset == [set |-> FALSE, v |-> 0]

NoBounds == [minX |-> Unset, minY |-> Unset, maxX |-> Unset, maxY |-> Unset]

LowTo(c, n) ==
    IF n.nan THEN c
    ELSE IF ~c.set \/ n.v < c.v THEN [set |-> TRUE, v |-> n.v] ELSE c

HighTo(c, n) ==
    IF n.nan THEN c
    ELSE IF ~c.set \/ n.v > c.v THEN [set |-> TRUE, v |-> n.v] ELSE c

\* updateBounds (lines 270-275)
UpdateBounds(b, x, y) ==
    [minX |-> LowTo(b.minX, x), maxX |-> HighTo(b.maxX, x),
     minY |-> LowTo(b.minY, y), maxY |-> HighTo(b.maxY, y)]

Element(el, a) == [el |-> el, a |-> a]

\* the loop of lines 370-379 over the points from index i (1-based) on:
\* the written points and the bounds
RECURSIVE OutlinePoints(_, _, _, _, _)
OutlinePoints(points, i, sx, sy, acc) ==
    IF i > Len(points) THEN acc
    ELSE LET px == Evaluate(points[i])
             py == IF i + 1 <= Len(points) THEN Evaluate(points[i + 1])
                   ELSE NaN
             ax == Plus(sx, px)
             ay == Plus(sy, py)
         IN  IF ~px.nan /\ ~py.nan
             THEN OutlinePoints(points, i + 2, sx, sy,
                      [pts |-> acc.pts \o <<Fmt(ax), Fmt(ay)>>,
                       b   |-> UpdateBounds(acc.b, ToMM(ax), ToMM(ay))])
             ELSE OutlinePoints(points, i + 2, sx, sy, acc)

SupportedKinds == {"circle", "vect", "outline", "center-line", "rect"}

\* one turn of the loop of lines 318-405: acc is the content written and
\* the bounds so far
RenderBlock(block, sx, sy, acc) ==
    CASE block.type = "circle" ->
           LET dia == Evaluate(OrElse(block.dia, block.diameter))
               x   == Evaluate(OrElse(block.x, block.cx))
               y   == Evaluate(OrElse(block.y, block.cy))
               r   == Half(dia)
               cx  == Plus(sx, x)
               cy  == Plus(sy, y)
               b1  == UpdateBounds(acc.b, Minus(ToMM(cx), ToMM(r)),
                                          Minus(ToMM(cy), ToMM(r)))
           IN  IF ~dia.nan
               THEN [svg |-> Append(acc.svg,
                                Element("circle", <<Fmt(cx), Fmt(cy), Fmt(r)>>)),
                     b   |-> UpdateBounds(b1, Plus(ToMM(cx), ToMM(r)),
                                              Plus(ToMM(cy), ToMM(r)))]
               ELSE acc
      [] block.type = "vect" ->
           LET width == Evaluate(block.width)
               absX1 == Plus(sx, Evaluate(block.x1))
               absY1 == Plus(sy, Evaluate(block.y1))
               absX2 == Plus(sx, Evaluate(block.x2))
               absY2 == Plus(sy, Evaluate(block.y2))
           IN  [svg |-> Append(acc.svg,
                            Element("line", <<Fmt(absX1), Fmt(absY1),
                                              Fmt(absX2), Fmt(absY2),
                                              Fmt(width)>>)),
                b   |-> UpdateBounds(
                            UpdateBounds(acc.b, ToMM(absX1), ToMM(absY1)),
                            ToMM(absX2), ToMM(absY2))]
      [] block.type = "outline" ->
           LET o == OutlinePoints(block.points, 1, sx, sy,
                                  [pts |-> <<>>, b |-> acc.b])
           IN  [svg |-> IF Len(o.pts) > 0
                        THEN Append(acc.svg, Element("polygon", o.pts))
                        ELSE acc.svg,
                b   |-> o.b]
      [] block.type \in {"center-line", "rect"} ->
           LET w    == Evaluate(block.width)
               h    == Evaluate(block.height)
               absX == Plus(sx, Evaluate(OrElse(block.x, block.cx)))
               absY == Plus(sy, Evaluate(OrElse(block.y, block.cy)))
               b1   == UpdateBounds(acc.b,
                           Minus(ToMM(absX), Half(ToMM(w))),
                           Minus(ToMM(absY), Half(ToMM(h))))
           IN  [svg |-> Append(acc.svg,
                            Element("rect", <<Fmt(Minus(absX, Half(w))),
                                              Fmt(Minus(absY, Half(h))),
                                              Fmt(w), Fmt(h)>>)),
                b   |-> UpdateBounds(b1,
                           Plus(ToMM(absX), Half(ToMM(w))),
                           Plus(ToMM(absY), Half(ToMM(h))))]
      [] OTHER -> acc

\* for (const block of blocks), from index i on
RECURSIVE RenderBlocks(_, _, _, _, _)
RenderBlocks(blocks, i, sx, sy, acc) ==
    IF i > Len(blocks) THEN acc
    ELSE RenderBlocks(blocks, i + 1, sx, sy,
                      RenderBlock(blocks[i], sx, sy, acc))

\* the blocks before the first one of an unsupported kind
RECURSIVE UntilUnsupported(_)
UntilUnsupported(blocks) ==
    IF blocks = <<>> \/ Head(blocks).type \notin SupportedKinds THEN <<>>
    ELSE <<Head(blocks)>> \o UntilUnsupported(Tail(blocks))

\* a renderMacro that gives up at the first unsupported primitive
RenderMacroGivingUp(blocks, sx, sy, acc) ==
    RenderBlocks(UntilUnsupported(blocks), 1, sx, sy, acc)

\* renderMacro (lines 306-406) on the blocks of a defined macro
RenderMacro(blocks, sx, sy, acc) ==
    RenderBlocks(blocks, 1, sx, sy, acc)

\* the primitives a macro definition is made of, lengths in 10^-4
Mm == Pow10(4)

PrimSet ==
    { CirclePrim(Lit(Mm), Lit(0), Lit(0)),
      CirclePrim(Fn(2 * Mm), Fn(Mm \div 2), Lit(0)),
      CirclePrim(Lit(Mm), Missing, Lit(Mm)),
      CirclePrim(Lit(Mm), Lit(3 * Mm), Throws),
      CirclePrim(Missing, Lit(0), Lit(0)),
      VectPrim(Lit(Mm \div 5), Lit(-Mm), Lit(0), Lit(Mm), Lit(0)),
      VectPrim(Lit(Mm \div 5), Lit(-Mm), Lit(0), Missing, Lit(2 * Mm)),
      OutlinePrim(<<Lit(0), Lit(0), Lit(Mm), Lit(0), Lit(0), Lit(Mm)>>),
      OutlinePrim(<<Lit(0), Lit(0), Throws, Lit(3 * Mm), Lit(0), Lit(Mm)>>),
      RectPrim(Lit(2 * Mm), Lit(Mm), Lit(0), Lit(0)),
      OtherPrim("poly") }

MaxPrims == 3

FlashPoints == {<<0, 0>>, <<10 * Mm, 5 * Mm>>}

\* unitScale (lines 266, 420-421) in tenths: 1 or 25.4
UnitScales == {10, 254}

InitMacro ==
    /\ macroDef \in SeqsUpTo(PrimSet, MaxPrims)
    /\ flashAt \in FlashPoints
    /\ unitScale \in UnitScales
    /\ svgContent = <<>>
    /\ renderBounds = NoBounds
    /\ flashCount = 0

\* the 'op' command with op === 'flash', the current tool being the macro
\* aperture (lines 440-445, 482-489, 510-511)
FlashMacro ==
    /\ flashCount = 0
    /\ LET x == Num(flashAt[1])
           y == Num(flashAt[2])
           r == RenderMacro(macroDef, x, y,
                    [svg |-> svgContent,
                     b   |-> UpdateBounds(renderBounds, ToMM(x), ToMM(y))])
       IN  /\ svgContent' = r.svg
           /\ renderBounds' = r.b
    /\ flashCount' = flashCount + 1
    /\ UNCHANGED <<macroDef, flashAt, unitScale>>
    /\ UNCHANGED <<convertVars, mirrorVars, invertVars, layerVars, hostVars,
                 arcVars>>

IdleMacro ==
    /\ macroDef = <<>>
    /\ flashAt = <<0, 0>>
    /\ unitScale = 10
    /\ svgContent = <<>>
    /\ renderBounds = NoBounds
    /\ flashCount = 0

\* ------------------------------------------------------------------------
\* The host: App's layers state, the effect that calls processLayers
\* (part_002 lines 40, 83-87, 93-153, 225, 364) and processLayers'
\* two halves around its 50 ms wait (useProcessor.ts lines 10-43)
\*
\* A layer list is kept as [n, ver, by]: how many layers it has, and the
\* number and the caller of the setLayers call that made it.
\* ------------------------------------------------------------------------

MaxLayers == 2

MaxEdits == 4

NoLayers == [n |-> 0, ver |-> 0, by |-> "useState"]

\* setLayers(list): a new array, so the next render's effect runs
SetLayers(n, by) ==
    /\ layers.ver < MaxEdits
    /\ layers' = [n |-> n, ver |-> layers.ver + 1, by |-> by]
    /\ effectDue' = TRUE

\* handleFileAccepted (lines 93-126); the uploader is on screen only
\* while layers is empty (lines 225-243); a file may yield no layer
HandleFileAccepted ==
    /\ layers.n = 0
    /\ \E n \in 0 .. MaxLayers : SetLayers(n, "handleFileAccepted")
    /\ UNCHANGED <<inFlight, processedLayers, isProcessing>>
    /\ UNCHANGED <<convertVars, mirrorVars, invertVars, layerVars, macroVars,
                 arcVars>>

\* updateLayer (lines 128-130), from the controls of a listed layer
UpdateLayer ==
    /\ layers.n > 0
    /\ SetLayers(layers.n, "updateLayer")
    /\ UNCHANGED <<inFlight, processedLayers, isProcessing>>
    /\ UNCHANGED <<convertVars, mirrorVars, invertVars, layerVars, macroVars,
                 arcVars>>

\* applyPreset (lines 132-153), from the header of the workspace
ApplyPreset ==
    /\ layers.n > 0
    /\ SetLayers(layers.n, "applyPreset")
    /\ UNCHANGED <<inFlight, processedLayers, isProcessing>>
    /\ UNCHANGED <<convertVars, mirrorVars, invertVars, layerVars, macroVars,
                 arcVars>>

\* Reset Workspace (line 364)
ResetWorkspace ==
    /\ layers.n > 0
    /\ SetLayers(0, "reset")
    /\ UNCHANGED <<inFlight, processedLayers, isProcessing>>
    /\ UNCHANGED <<convertVars, mirrorVars, invertVars, layerVars, macroVars,
                 arcVars>>

\* the effect of lines 83-87 after a render with a new layers, and
\* processLayers up to its await (useProcessor.ts lines 10-15)
RunEffect ==
    /\ effectDue
    /\ effectDue' = FALSE
    /\ IF layers.n > 0
       THEN /\ isProcessing' = TRUE
            /\ inFlight' = Append(inFlight, layers)
       ELSE UNCHANGED <<inFlight, isProcessing>>
    /\ UNCHANGED <<layers, processedLayers>>
    /\ UNCHANGED <<convertVars, mirrorVars, invertVars, layerVars, macroVars,
                 arcVars>>

\* processLayers after its 50 ms (useProcessor.ts lines 17-42); timers of
\* equal delay fire in the order they were set
ResumeProcessLayers ==
    /\ inFlight # <<>>
    /\ processedLayers' = Head(inFlight)
    /\ isProcessing' = FALSE
    /\ inFlight' = Tail(inFlight)
    /\ UNCHANGED <<layers, effectDue>>
    /\ UNCHANGED <<convertVars, mirrorVars, invertVars, layerVars, macroVars,
                 arcVars>>

\* the list the export (line 157) and the preview (line 391) read
SourceLayers == IF processedLayers.n > 0 THEN processedLayers ELSE layers

InitHost ==
    /\ layers = NoLayers
    /\ effectDue = FALSE
    /\ inFlight = <<>>
    /\ processedLayers = NoLayers
    /\ isProcessing = FALSE

IdleHost == InitHost

\* ------------------------------------------------------------------------
\* getArcPath (part_003 lines 281-296)
\*
\* Angles are integers in eighths of a turn (pi / 4).  The calls of the
\* model have start and end points on the eight compass directions from
\* the center, or at the center, so that every angle is a whole number of
\* eighths.  Lengths are in units of 10^-4, as in the macro flash.
\* ------------------------------------------------------------------------

\* Math.atan2(y, x) for x = 0, y = 0 or |x| = |y|: a value in (-pi, pi],
\* and 0 for (0, 0)
Atan2(y, x) ==
    CASE y = 0 /\ x >= 0 -> 0
      [] y = 0 /\ x < 0  -> 4
      [] x = 0 /\ y > 0  -> 2
      [] x = 0 /\ y < 0  -> -2
      [] x > 0 /\ y > 0  -> 1
      [] x < 0 /\ y > 0  -> 3
      [] x > 0 /\ y < 0  -> -1
      [] x < 0 /\ y < 0  -> -3

\* Math.sqrt(n), to the nearest integer
RoundSqrt(n) == (ISqrt(4 * n) + 1) \div 2

\* getArcPath: diff is the swept angle after the correction of lines
\* 288-292, cmd the operands of the returned 'A' command
GetArcPath(startX, startY, endX, endY, i, j, mode) ==
    LET cx == startX + i
        cy == startY + j
        r  == RoundSqrt(i * i + j * j)
        startAngle == Atan2(startY - cy, startX - cx)
        endAngle   == Atan2(endY - cy, endX - cx)
        diff0 == endAngle - startAngle
        diff  == IF mode = "cw"
                 THEN IF diff0 > 0 THEN diff0 - 8 ELSE diff0
                 ELSE IF diff0 < 0 THEN diff0 + 8 ELSE diff0
        largeArc  == IF Abs(diff) > 4 THEN 1 ELSE 0
        sweepFlag == IF mode = "cw" THEN 0 ELSE 1
    IN  [diff |-> diff,
         cmd  |-> <<Fmt(Num(r)).v, Fmt(Num(r)).v, 0, largeArc, sweepFlag,
                    Fmt(Num(endX)).v, Fmt(Num(endY)).v>>]

\* the eight directions and the null vector, one unit long per axis
Compass == {<<a * Mm, b * Mm>> : a \in {-1, 0, 1}, b \in {-1, 0, 1}}

\* a call from the arc branches of the main loop (lines 462, 475):
\* interpolationMode is 'cw' or 'ccw' there
InitArc ==
    /\ \E s \in {<<0, 0>>, <<5 * Mm, 3 * Mm>>}, ij \in Compass, e \in Compass,
          mode \in {"cw", "ccw"} :
          arcIn = [startX |-> s[1], startY |-> s[2],
                   endX |-> s[1] + ij[1] + e[1], endY |-> s[2] + ij[2] + e[2],
                   i |-> ij[1], j |-> ij[2], mode |-> mode]
    /\ arcOut = [diff |-> 0, cmd |-> <<>>]
    /\ arcCount = 0

ArcStep ==
    /\ arcCount = 0
    /\ arcOut' = GetArcPath(arcIn.startX, arcIn.startY, arcIn.endX,
                            arcIn.endY, arcIn.i, arcIn.j, arcIn.mode)
    /\ arcCount' = 1
    /\ UNCHANGED arcIn
    /\ UNCHANGED <<convertVars, mirrorVars, invertVars, layerVars, macroVars,
                   hostVars>>

IdleArc ==
    /\ arcIn = [startX |-> 0, startY |-> 0, endX |-> 0, endY |-> 0,
                i |-> 0, j |-> 0, mode |-> "cw"]
    /\ arcOut = [diff |-> 0, cmd |-> <<>>]
    /\ arcCount = 0

\* the mirror and invert parts at rest
IdleMirror ==
    /\ mirrorIn = <<>> /\ mirrorOut = <<>>
    /\ mirrorBounds = [x |-> 0, width |-> 0]
    /\ mirrorCount = 0

IdleInvert ==
    /\ traceIn = EmptyString
    /\ invertArg = EmptyString
    /\ invertOut = EmptyString
    /\ invertBounds = [x |-> 0, y |-> 0, width |-> 0, height |-> 0]
    /\ padding = 0
    /\ invertCount = 0
    /\ invertFault = <<>>

\* the interpreter at rest
IdleConvert ==
    /\ apertures = [t \in ToolCodes |-> 0]
    /\ fsMatch = NoK
    /\ isIncremental = FALSE
    /\ InitConvert

Init ==
    /\ InitConvert /\ IdleMirror /\ IdleInvert /\ IdleLayers /\ IdleMacro
    /\ IdleHost /\ IdleArc

Next == ProcessBlock

Spec == Init /\ [][Next]_vars

\* mirror alone: the converter and invert at rest
MirrorInit ==
    /\ IdleConvert /\ InitMirror /\ IdleInvert /\ IdleLayers /\ IdleMacro
    /\ IdleHost /\ IdleArc

SpecMirror == MirrorInit /\ [][MirrorStep]_vars

\* invert alone: the converter and mirror at rest
InvertInit ==
    /\ IdleConvert /\ IdleMirror /\ InitInvert /\ IdleLayers /\ IdleMacro
    /\ IdleHost /\ IdleArc

SpecInvert == InvertInit /\ [][InvertStep]_vars

\* processLayers' callback alone
LayersInit ==
    /\ IdleConvert /\ IdleMirror /\ IdleInvert /\ InitLayers /\ IdleMacro
    /\ IdleHost /\ IdleArc

SpecLayers == LayersInit /\ [][ProcessLayer]_vars

\* the macro flash alone
MacroInit ==
    /\ IdleConvert /\ IdleMirror /\ IdleInvert /\ IdleLayers /\ InitMacro
    /\ IdleHost /\ IdleArc

SpecMacro == MacroInit /\ [][FlashMacro]_vars

\* getArcPath alone
ArcInit ==
    /\ IdleConvert /\ IdleMirror /\ IdleInvert /\ IdleLayers /\ IdleMacro
    /\ IdleHost /\ InitArc

SpecArc == ArcInit /\ [][ArcStep]_vars

\* the host alone: the user's actions, the effect and the timers
HostInit ==
    /\ IdleConvert /\ IdleMirror /\ IdleInvert /\ IdleLayers /\ IdleMacro
    /\ InitHost /\ IdleArc

HostNext ==
    \/ HandleFileAccepted
    \/ UpdateLayer
    \/ ApplyPreset
    \/ ResetWorkspace
    \/ RunEffect
    \/ ResumeProcessLayers

SpecHost == HostInit /\ [][HostNext]_vars

\* ------------------------------------------------------------------------
\* Properties of GerberToPath.convert
\* ------------------------------------------------------------------------

\* the aperture table of a text without %ADD statements
NoApertures == [t \in ToolCodes |-> 0]

\* the decoded value the format rule gives a token under k decimal digits
RuleDecode(t, k) ==
    LET mag == IF t.pt
               THEN (t.ip * Pow10(t.fw) + t.fp) * Pow10(6 - t.fw)
               ELSE t.ip * Pow10(6 - k)
    IN  IF t.neg THEN -mag ELSE mag

\* the digit count of the format rule: declared by %FS, else 6
RuleDigits == IF fsMatch = NoK THEN 6 ELSE fsMatch

\* C2: every X/Y token the interpreter decodes gets the value of the format
\* rule: integer / 10^k with k the declared digit count (6 without a format
\* spec), or the literal value when the token has a decimal point.
C2_DecodeRule ==
    step.how = "run" =>
        /\ step.blk.x # NoTok => step.xVal = RuleDecode(step.blk.x, RuleDigits)
        /\ step.blk.y # NoTok => step.yVal = RuleDecode(step.blk.y, RuleDigits)

\* the text read so far is garbage: no format spec, no aperture definition,
\* no G91, and no well-formed block
GarbageInput ==
    /\ fsMatch = NoK
    /\ apertures = NoApertures
    /\ ~isIncremental
    /\ step.garbage

\* C6: for the empty text and for garbage text convert returns the empty
\* path and the bounding box {0, 0, 0, 0}.
C6_GarbageEmpty ==
    GarbageInput =>
        ConvertResult = [path |-> <<>>, bounds |-> ZeroBounds]

\* the last block drew with D01, outside region mode, directly after a
\* D02 move, with a registered aperture selected
StrokeAfterMove ==
    /\ step.how = "run"
    /\ step.blk.d = 1
    /\ step.effectiveOp = 1
    /\ ~isRegionMode
    /\ step.prev.how = "run"
    /\ step.prev.blk.d = 2
    /\ ApertureOf(currentTool) > 0

\* the emitted commands are a closed polygon of four corners followed by
\* a move back to the target
IsStrokePolygon(e) ==
    /\ Len(e) = 6
    /\ e[1].c = "M" /\ e[2].c = "L" /\ e[3].c = "L" /\ e[4].c = "L"
    /\ e[5] = ClosePath
    /\ e[6] = MoveTo(ToFixed3(currentX), ToFixed3(currentY))

\* P, Q and d / 2 lie on the 10^-3 mm grid of the output and the normal of
\* PQ scaled to d / 2 does too
OnOutputGrid(px, py, qx, qy, d) ==
    /\ px % 1000 = 0 /\ py % 1000 = 0 /\ qx % 1000 = 0 /\ qy % 1000 = 0
    /\ d % 2000 = 0
    /\ LET g  == GCD(Abs(qx - px), Abs(qy - py))
           ux == (qx - px) \div g
           uy == (qy - py) \div g
           l  == ISqrt(ux * ux + uy * uy)
       IN  /\ Abs(ux) <= 1000 /\ Abs(uy) <= 1000
           /\ l * l = ux * ux + uy * uy
           /\ (ux * (d \div 2000)) % l = 0
           /\ (uy * (d \div 2000)) % l = 0

\* the polygon e is P+n, Q+n, Q-n, P-n for the normal n of PQ, to the left
\* of PQ, of length d / 2 (all in units of 10^-3 mm)
IsNormalOffsetPolygon(e, px, py, qx, qy, d) ==
    LET nx2 == e[1].a[1] - e[4].a[1]
        ny2 == e[1].a[2] - e[4].a[2]
        dx  == qx - px
        dy  == qy - py
    IN  /\ e[1].a[1] + e[4].a[1] = 2 * px /\ e[1].a[2] + e[4].a[2] = 2 * py
        /\ e[2].a[1] + e[3].a[1] = 2 * qx /\ e[2].a[2] + e[3].a[2] = 2 * qy
        /\ e[2].a[1] - e[3].a[1] = nx2 /\ e[2].a[2] - e[3].a[2] = ny2
        /\ nx2 * dx + ny2 * dy = 0
        /\ nx2 * nx2 + ny2 * ny2 = d * d
        /\ dx * ny2 - dy * nx2 > 0

\* the 10 x 1 rectangle of the spec's example
ExampleRectangle ==
    << MoveTo(0, 500), LineTo(10000, 500), LineTo(10000, -500),
       LineTo(0, -500), ClosePath, MoveTo(10000, 0) >>

\* what C7 claims of a stroke from P to Q
StrokeIsPolygon ==
    LET px == step.pre.lastX
        py == step.pre.lastY
        d  == ApertureOf(currentTool)
    IN  /\ IsStrokePolygon(step.emit)
        /\ OnOutputGrid(px, py, currentX, currentY, d) =>
              IsNormalOffsetPolygon(step.emit, px \div 1000, py \div 1000,
                                    currentX \div 1000, currentY \div 1000,
                                    d \div 1000)
        /\ (px = 0 /\ py = 0 /\ currentX = 10000000 /\ currentY = 0
            /\ d = 1000000) => step.emit = ExampleRectangle

\* C7 as stated: a D01 draw after a D02 move to P, to any point Q # P,
\* emits the closed polygon P+n, Q+n, Q-n, P-n.
C7_StrokeAnyLength ==
    (StrokeAfterMove
       /\ <<step.pre.lastX, step.pre.lastY>> # <<currentX, currentY>>)
    => StrokeIsPolygon

\* C7, amended: the same for every Q farther than 0.001 mm from P; the
\* corners are written with 3 decimals.
C7_StrokeRectangle ==
    (StrokeAfterMove
       /\ IsLongSegment(currentX - step.pre.lastX, currentY - step.pre.lastY))
    => StrokeIsPolygon

\* C7 witness: the spec's example, (0,0) to (10,0) with a 1 mm aperture
C7_Witness ==
    /\ StrokeAfterMove
    /\ step.pre.lastX = 0 /\ step.pre.lastY = 0
    /\ currentX = 10000000 /\ currentY = 0
    /\ ApertureOf(currentTool) = 1000000
    /\ step.emit = ExampleRectangle

\* the text's only geometry is one flash, at the point its block names,
\* of a registered aperture
OnlyOneFlash ==
    /\ step.how = "run"
    /\ step.effectiveOp = 3
    /\ step.blk.x # NoTok /\ step.blk.y # NoTok
    /\ step.pre.npath = 0
    /\ ~step.pre.hasAnyPoint
    /\ Len(pathDataArray) = 4
    /\ ApertureOf(currentTool) > 0

\* C8: one flash of a circular aperture of diameter d at (x, y) gives the
\* bounding box {x - d/2, y - d/2, d, d}.
C8_FlashBounds ==
    OnlyOneFlash =>
        LET d == ApertureOf(currentTool)
        IN  ConvertResult.bounds =
                [x |-> currentX - d \div 2, y |-> currentY - d \div 2,
                 width |-> d, height |-> d]

\* the last block carries coordinates and no D01/D02/D03
CoordinatesOnly ==
    /\ step.how = "run"
    /\ step.blk.x # NoTok \/ step.blk.y # NoTok
    /\ step.blk.d \notin {1, 2, 3}

\* C10 as stated: once a D-code is set it is the effective operation of
\* every later block with coordinates and no D-code, and only a
\* D01/D02/D03 block changes it.
C10_OnlyDCodesChange ==
    step.pre.dSeen =>
        /\ CoordinatesOnly => step.effectiveOp = step.pre.lastDCode
        /\ lastDCode # step.pre.lastDCode =>
              (step.how = "run" /\ step.blk.d \in {1, 2, 3})

\* C10, amended: the modal code is changed only by a block that is
\* interpreted (not skipped as parameter or aperture-select block) and
\* carries D01/D02/D03 (the new code) or contains G00 (move) or G01 (draw);
\* a block with coordinates and none of these runs the code set before.
C10_ModalOperation ==
    /\ (CoordinatesOnly /\ ~step.blk.g00 /\ ~step.blk.g01)
          => step.effectiveOp = step.pre.lastDCode
    /\ lastDCode # step.pre.lastDCode =>
          /\ step.how = "run"
          /\ step.blk.d \in {1, 2, 3} \/ step.blk.g00 \/ step.blk.g01
    /\ (step.how = "run" /\ step.blk.d \in {1, 2, 3}) => lastDCode = step.blk.d
    /\ (step.how = "run" /\ step.blk.d \notin {1, 2, 3}) =>
          lastDCode = IF step.blk.g00 THEN 2
                      ELSE IF step.blk.g01 THEN 1 ELSE step.pre.lastDCode

\* C10 witness: a block with coordinates and no D-code flashes, because
\* an earlier block set D03
C10_Witness ==
    /\ CoordinatesOnly
    /\ step.pre.dSeen
    /\ step.pre.lastDCode = 3
    /\ step.effectiveOp = 3
    /\ Len(step.emit) = 4

\* ------------------------------------------------------------------------
\* Properties of VectorProcessor.mirror (checked under SpecMirror)
\* ------------------------------------------------------------------------

\* the board-bounds based center line, doubled: c + c for c = x + width / 2
TwiceCenter(b) == 2 * b.x + b.width

\* c + (c - v), written with the three decimals of the output
Reflected(b, v) == 1000 * RoundDiv(TwiceCenter(b) - v, 1000)

\* the documented operand layouts of the serialized path: coordinate pairs
\* for M L C S Q T, one group of seven operands for A, none for Z
InGrammar(cmd) ==
    \/ cmd.c \in {"M", "L", "C", "S", "Q", "T", "m", "l", "c", "s", "q", "t"}
         /\ Len(cmd.a) % 2 = 0
    \/ cmd.c \in {"A", "a"} /\ Len(cmd.a) = 7
    \/ cmd.c \in {"Z", "z"} /\ Len(cmd.a) = 0

\* the 1-based positions of the X and the Y operands in a grammar command
IsXOperand(cmd, j) == IF cmd.c \in {"A", "a"} THEN j = 6 ELSE j % 2 = 1

IsYOperand(cmd, j) == IF cmd.c \in {"A", "a"} THEN j = 7 ELSE j % 2 = 0

MirroredOnce == mirrorCount = 1 /\ mirrorBounds.width > 0

C4_EveryArcGroup ==
    MirroredOnce =>
        \A i \in 1 .. Len(mirrorIn) :
            (mirrorIn[i].c \in {"A", "a"} /\ Len(mirrorIn[i].a) % 7 = 0) =>
                /\ Len(mirrorOut[i].a) = Len(mirrorIn[i].a)
                /\ \A j \in 1 .. Len(mirrorIn[i].a) :
                     LET field == (j - 1) % 7
                         v == mirrorIn[i].a[j]
                         w == mirrorOut[i].a[j]
                     IN  IF field = 4 THEN w = (IF v = 0 THEN One ELSE 0)
                         ELSE IF field = 5 THEN w = Reflected(mirrorBounds, v)
                         ELSE w = v

\* the 3-decimal output tolerance, in micrometre units (0.001 mm)
OutputTolerance == One \div 1000

\* C5: mirroring twice with the same bounds gives back the input: the same
\* commands and operand counts, every operand within the 3-decimal output
\* tolerance, every arc sweep flag exactly.
C5_MirrorTwice ==
    mirrorCount = 2 =>
        /\ Len(mirrorOut) = Len(mirrorIn)
        /\ \A i \in 1 .. Len(mirrorIn) :
             /\ mirrorOut[i].c = mirrorIn[i].c
             /\ Len(mirrorOut[i].a) = Len(mirrorIn[i].a)
             /\ \A j \in 1 .. Len(mirrorIn[i].a) :
                  /\ Abs(mirrorOut[i].a[j] - mirrorIn[i].a[j]) <= OutputTolerance
                  /\ (mirrorIn[i].c \in {"A", "a"} /\ (j - 1) % 7 = 4) =>
                       mirrorOut[i].a[j] = mirrorIn[i].a[j]

\* a path with an arc and an off-grid coordinate went through two mirrors
C5_Witness ==
    /\ mirrorCount = 2
    /\ mirrorBounds.width > 0
    /\ \E i \in 1 .. Len(mirrorIn) : mirrorIn[i].c \in {"A", "a"}
    /\ \E i \in 1 .. Len(mirrorIn) :
         \E j \in 1 .. Len(mirrorIn[i].a) :
            mirrorOut[i].a[j] # mirrorIn[i].a[j]

\* ------------------------------------------------------------------------
\* Properties of VectorProcessor.invert (checked under SpecInvert)
\* ------------------------------------------------------------------------

\* trim().length > 0
NonEmpty(str) == str.kind \notin {"empty", "blank"}

\* C1: for a non-empty trace path invert returns a non-empty string, and
\* whenever the trace cannot be imported, yields no geometric items, or
\* the subtraction raises or produces no path data, it returns exactly the
\* string it was given.
C1_InvertNeverEmpty ==
    (invertCount >= 1 /\ NonEmpty(invertArg)) =>
        /\ NonEmpty(invertOut)
        /\ invertFault[invertCount] # "ok" => invertOut = invertArg

\* C9: inverting twice with the same bounds and padding reproduces the
\* trace geometry (stated for traces that lie on the plate, and for calls
\* in which paper.js does not fail).
C9_InvertTwice ==
    ( /\ invertCount = 2
      /\ traceIn.kind = "path"
      /\ traceIn.geom # {}
      /\ traceIn.geom \subseteq PlateOf(invertBounds, padding)
      /\ \A n \in 1 .. 2 : invertFault[n] \in {"ok", "noPathData", "emptyInput"} )
        => invertOut.geom = traceIn.geom

\* ------------------------------------------------------------------------
\* Further properties of GerberToPath.convert (checked under Spec)
\* ------------------------------------------------------------------------

\* the last iteration ran the loop body on a block with an X / a Y token
DecodedX == step.how = "run" /\ step.blk.x # NoTok

DecodedY == step.how = "run" /\ step.blk.y # NoTok

\* C11: in absolute mode every decoded coordinate replaces the current X
\* or Y; in incremental mode the first coordinate of the input is taken as
\* absolute and every later one, after any sequence of move, draw and
\* flash operations, is added to the current X or Y.
C11_IncrementalDelta ==
    /\ DecodedX =>
          currentX = IF isIncremental /\ step.pre.hasAnyPoint
                     THEN step.pre.currentX + step.xVal ELSE step.xVal
    /\ DecodedY =>
          currentY = IF isIncremental /\ step.pre.hasAnyPoint
                     THEN step.pre.currentY + step.yVal ELSE step.yVal

\* C12: once the format spec has been parsed the coordinate divisor
\* 10^decimalDigits never changes, whatever parameter blocks follow, and
\* every later integer token is divided by that same divisor.
C12_DivisorFixed ==
    /\ divisor = Pow10(decimalPlaces)
    /\ (DecodedX /\ ~step.blk.x.pt) =>
          step.xVal = (step.blk.x.ip * One) \div Pow10(decimalPlaces)

\* the last block drew with D01 directly after a D02 move, outside region
\* mode, over more than the minimum length
StrokeExecuted ==
    /\ step.how = "run"
    /\ step.blk.d = 1
    /\ step.effectiveOp = 1
    /\ ~isRegionMode
    /\ step.prev.how = "run"
    /\ step.prev.blk.d = 2
    /\ IsLongSegment(currentX - step.pre.lastX, currentY - step.pre.lastY)

FlashExecuted == step.how = "run" /\ step.effectiveOp = 3

\* no aperture-select block so far, or the selected code is not registered
NoUsableAperture == ~step.toolSeen \/ ApertureOf(currentTool) = 0

\* the stroke polygon e is w wide (w in micrometre units; e in 10^-3 mm)
StrokeWidthIs(e, w) ==
    LET nx2 == e[1].a[1] - e[4].a[1]
        ny2 == e[1].a[2] - e[4].a[2]
    IN  nx2 * nx2 + ny2 * ny2 = (w \div 1000) * (w \div 1000)

\* C13: a draw or flash executed before any aperture-select block, or
\* while the selected code has no registered definition, is emitted and is
\* sized by the default width constant, not by zero and not by an aperture
\* that was defined but never selected.
C13_DefaultWidth ==
    NoUsableAperture =>
        /\ StrokeExecuted =>
              /\ IsStrokePolygon(step.emit)
              /\ StrokeWidthIs(step.emit, DefaultStrokeWidth)
        /\ FlashExecuted =>
              /\ Len(step.emit) >= 4
              /\ step.emit[Len(step.emit) - 2].a[1] =
                     ToFixed3(DefaultFlashWidth \div 2)

\* C14: when a region opened by G36 is still open where the input ends,
\* none of the points of that contour are in the returned path: the path
\* is what had been emitted when the region was opened.
C14_UnclosedRegionDropped ==
    isRegionMode => Len(ConvertResult.path) = step.regionFrom

\* the end point of a path command, in micrometre units (<<>> for Z)
EndPointOf(cmd) ==
    IF cmd.c = "A" THEN <<1000 * cmd.a[6], 1000 * cmd.a[7]>>
    ELSE IF Len(cmd.a) = 2 THEN <<1000 * cmd.a[1], 1000 * cmd.a[2]>>
    ELSE <<>>

\* half a unit of the last written decimal (0.0005 mm), the distance
\* toFixed(3) can move a coordinate
HalfOutputUnit == One \div 2000

\* the box contains the point, up to the rounding of the written value
BoxContains(box, pt) ==
    /\ box.x - HalfOutputUnit <= pt[1]
    /\ pt[1] <= box.x + box.width + HalfOutputUnit
    /\ box.y - HalfOutputUnit <= pt[2]
    /\ pt[2] <= box.y + box.height + HalfOutputUnit

\* C15: after any sequence of blocks the returned bounding box contains
\* every coordinate of the emitted path, the corners of stroke rectangles
\* and the end points of flash arcs included.
C15_BoundsContainPath ==
    \A i \in 1 .. Len(ConvertResult.path) :
        EndPointOf(ConvertResult.path[i]) # <<>> =>
            BoxContains(ConvertResult.bounds, EndPointOf(ConvertResult.path[i]))

\* C17: a block that is no recognized command (malformed text, arbitrary
\* text, a comment) is skipped: the current point, the selected aperture,
\* the modal operation code, the region flag, the emitted path and the
\* bounding box are what they were before it, and so is everything else
\* the interpretation of later blocks depends on.
C17_JunkSkipped ==
    (step.how # "none" /\ step.blk.junk) =>
        /\ currentX = step.pre.currentX /\ currentY = step.pre.currentY
        /\ currentTool = step.pre.currentTool
        /\ lastDCode = step.pre.lastDCode
        /\ isRegionMode = step.pre.isRegionMode
        /\ Len(pathDataArray) = step.pre.npath
        /\ hasAnyPoint = step.pre.hasAnyPoint
        /\ lastX = step.pre.lastX /\ lastY = step.pre.lastY
        /\ isFirstMove = step.pre.isFirstMove
        /\ hasLastPoint = step.pre.hasLastPoint
        /\ divisor = step.pre.divisor

\* ------------------------------------------------------------------------
\* Properties of processLayers (checked under SpecLayers)
\* ------------------------------------------------------------------------

\* the point a path command leads to from the point `cur`
TargetOf(cmd, cur) ==
    CASE cmd.c \in {"M", "L"} -> <<cmd.a[1], cmd.a[2]>>
      [] cmd.c = "l" -> <<cur[1] + cmd.a[1], cur[2] + cmd.a[2]>>
      [] cmd.c = "h" -> <<cur[1] + cmd.a[1], cur[2]>>
      [] cmd.c = "v" -> <<cur[1], cur[2] + cmd.a[1]>>
      [] OTHER -> cur

\* the vertices of the geometry a path describes
RECURSIVE VerticesFrom(_, _)
VerticesFrom(path, cur) ==
    IF path = <<>> THEN {}
    ELSE LET next == TargetOf(path[1], cur)
         IN  (IF path[1].c \in {"z", "Z"} THEN {} ELSE {next})
                 \cup VerticesFrom(Tail(path), next)

\* {minX, minY, maxX - minX, maxY - minY} over the vertices
GeometryBounds(path) ==
    LET pts   == VerticesFrom(path, <<0, 0>>)
        lowX  == CHOOSE v \in {q[1] : q \in pts} : \A q \in pts : v <= q[1]
        lowY  == CHOOSE v \in {q[2] : q \in pts} : \A q \in pts : v <= q[2]
        highX == CHOOSE v \in {q[1] : q \in pts} : \A q \in pts : q[1] <= v
        highY == CHOOSE v \in {q[2] : q \in pts} : \A q \in pts : q[2] <= v
    IN  Box(lowX, lowY, highX - lowX, highY - lowY)

\* the callback ran on a layer that is inverted
LayerInverted == layerRun.lib # "none" /\ layerIn.inverted

\* C16: for every layer that is inverted, the bounds stored with the
\* processed layer are the bounding box of the coordinates of the
\* resulting clearance geometry.
C16_BoundsOfClearance ==
    (LayerInverted /\ layerOut.content # <<>>) =>
        layerOut.bounds = GeometryBounds(layerOut.content)


\* ------------------------------------------------------------------------
\* Properties of the macro flash of renderGerberWithCustomParser
\* ------------------------------------------------------------------------

\* what the flash starts from: nothing written, the flash point in the bounds
FlashStart ==
    [svg |-> <<>>,
     b   |-> UpdateBounds(NoBounds, ToMM(Num(flashAt[1])),
                                    ToMM(Num(flashAt[2])))]

\* what one primitive writes and covers when it is rendered on its own
AloneAt(block) ==
    RenderBlock(block, Num(flashAt[1]), Num(flashAt[2]),
                [svg |-> <<>>, b |-> NoBounds])

RECURSIVE ElementsInOrder(_)
ElementsInOrder(blocks) ==
    IF blocks = <<>> THEN <<>>
    ELSE AloneAt(Head(blocks)).svg \o ElementsInOrder(Tail(blocks))

IsSupported(block) == block.type \in SupportedKinds

LowWithin(inner, outer) ==
    inner.set => (outer.set /\ outer.v <= inner.v)

HighWithin(inner, outer) ==
    inner.set => (outer.set /\ outer.v >= inner.v)

BoundsWithin(inner, outer) ==
    /\ LowWithin(inner.minX, outer.minX)
    /\ LowWithin(inner.minY, outer.minY)
    /\ HighWithin(inner.maxX, outer.maxX)
    /\ HighWithin(inner.maxY, outer.maxY)

\* C18: when a macro aperture is flashed, a primitive of an unsupported
\* kind writes nothing and does not stop the flash: what is written is, in
\* order, exactly what each supported primitive of the macro writes on its
\* own, before and after the unsupported ones, and the bounding box covers
\* what each supported primitive covers on its own.
C18_UnsupportedSkipped ==
    flashCount = 1 =>
        /\ svgContent = ElementsInOrder(SelectSeq(macroDef, IsSupported))
        /\ \A i \in 1 .. Len(macroDef) :
               /\ ~IsSupported(macroDef[i]) =>
                      AloneAt(macroDef[i]) = [svg |-> <<>>, b |-> NoBounds]
               /\ IsSupported(macroDef[i]) =>
                      BoundsWithin(AloneAt(macroDef[i]).b, renderBounds)

\* C18's case: a flashed macro with an unsupported primitive between two
\* supported ones, both written
C18_Witness ==
    /\ flashCount = 1
    /\ Len(macroDef) = 3
    /\ macroDef[1].type = "circle"
    /\ ~IsSupported(macroDef[2])
    /\ macroDef[3].type = "rect"
    /\ Len(svgContent) = 2
    /\ svgContent[1].el = "circle"
    /\ svgContent[2].el = "rect"

\* the fields a primitive reads
FieldsOf(block) ==
    CASE block.type = "circle" ->
           {OrElse(block.dia, block.diameter), OrElse(block.x, block.cx),
            OrElse(block.y, block.cy)}
      [] block.type = "vect" ->
           {block.width, block.x1, block.y1, block.x2, block.y2}
      [] block.type = "outline" ->
           {block.points[i] : i \in 1 .. Len(block.points)}
      [] block.type \in {"center-line", "rect"} ->
           {block.width, block.height, OrElse(block.x, block.cx),
            OrElse(block.y, block.cy)}
      [] OTHER -> {}

IsResolved(block) ==
    \A f \in FieldsOf(block) : f.k \notin {"missing", "throws"}

\* C19: a supported primitive with a field that is missing or whose
\* expression throws writes nothing and leaves the bounding box alone; the
\* flash is the flash of the macro without those primitives.
C19_UnresolvedDropped ==
    flashCount = 1 =>
        [svg |-> svgContent, b |-> renderBounds] =
            RenderMacro(SelectSeq(macroDef, IsResolved),
                        Num(flashAt[1]), Num(flashAt[2]), FlashStart)


\* ------------------------------------------------------------------------
\* Properties of the host
\* ------------------------------------------------------------------------

\* C20: at any time at most one processLayers invocation is between its
\* start and its end, the 50 ms wait included.
C20_OneInFlight == Len(inFlight) <= 1


\* ------------------------------------------------------------------------
\* Properties of the path plotter of GerberToPath.convert (checked under
\* Spec)
\* ------------------------------------------------------------------------

\* C21: a block with X, Y and D02 that directly follows the closing '%' of
\* a parameter block is interpreted like the same block after an operation
\* block: it runs as an operation block, moves the current point, emits
\* its moveTo and leaves the divisor alone.
C21_BlockAfterPercent ==
    (/\ step.how # "none"
     /\ step.blk.pct
     /\ step.blk.d = 2
     /\ step.blk.x # NoTok) =>
        /\ step.how = "run"
        /\ step.emit = <<MoveTo(ToFixed3(currentX), ToFixed3(currentY))>>
        /\ lastDCode = 2
        /\ divisor = step.pre.divisor

\* what the operation of the last block emitted, without the closePath of
\* a G37 in the same block
DrawnPart == IF step.blk.g37 THEN Tail(step.emit) ELSE step.emit

\* the last block drew, and the operation emitted before it was a flash
DrawAfterFlash ==
    /\ step.how = "run"
    /\ step.effectiveOp = 1
    /\ step.pre.lastOp = 3

\* C22: the draw that follows a flash starts a new subpath: what it emits
\* begins with a moveTo, and holds neither a lineTo that continues nor a
\* stroke rectangle that starts from the geometry before the flash.
C22_FlashBreaksPath ==
    DrawAfterFlash =>
        DrawnPart = <<MoveTo(ToFixed3(currentX), ToFixed3(currentY))>>

\* C22's case: move, flash, then a draw to another point with a registered
\* aperture, outside region mode
C22_Witness ==
    /\ DrawAfterFlash
    /\ step.pre.hasLastPoint
    /\ ~isRegionMode
    /\ ApertureOf(currentTool) > 0
    /\ currentX # step.pre.currentX
    /\ Len(pathDataArray) = step.pre.npath + 1

\* the last block drew to the point the interpreter was at, continuing a
\* subpath
ZeroLengthDraw ==
    /\ step.how = "run"
    /\ step.effectiveOp = 1
    /\ step.pre.hasLastPoint
    /\ ~step.pre.isFirstMove
    /\ step.pre.lastX = step.pre.currentX
    /\ step.pre.lastY = step.pre.currentY
    /\ currentX = step.pre.currentX
    /\ currentY = step.pre.currentY

\* C23: a draw whose target is the previous point adds nothing to the
\* path.
C23_ZeroLengthSkipped == ZeroLengthDraw => DrawnPart = <<>>


\* the last block drew in a region that an earlier block opened and in
\* which nothing was emitted before
FirstDrawInRegion ==
    /\ step.how = "run"
    /\ step.effectiveOp = 1
    /\ step.pre.isRegionMode
    /\ isRegionMode
    /\ step.pre.npath = step.regionFrom

\* C25: G36 turns region mode on and begins a contour at the current
\* point: the first draw in the region appends a lineTo that directly
\* follows a moveTo at the point the interpreter was at; G37 emits a
\* closePath and turns region mode off.
C25_RegionContour ==
    /\ (step.how = "run" /\ step.blk.g36 /\ ~step.blk.g37) => isRegionMode
    /\ (step.how = "run" /\ step.blk.g37) =>
           (~isRegionMode /\ step.emit # <<>> /\ step.emit[1] = ClosePath)
    /\ FirstDrawInRegion =>
           /\ step.emit = <<LineTo(ToFixed3(currentX), ToFixed3(currentY))>>
           /\ step.pre.npath > 0
           /\ pathDataArray[step.pre.npath] =
                  MoveTo(ToFixed3(step.pre.currentX),
                         ToFixed3(step.pre.currentY))

\* the last block drew while region mode was on
DrawInRegion ==
    /\ step.how = "run"
    /\ step.effectiveOp = 1
    /\ isRegionMode

\* the draw continues a subpath: it is not the first operation and does
\* not follow a flash
ContinuesSubpath == ~step.pre.isFirstMove /\ step.pre.hasLastPoint

\* the last block drew over more than the minimum length with a
\* registered aperture, outside region mode, directly after a G37 block
DrawAfterRegionEnd ==
    /\ step.how = "run"
    /\ step.effectiveOp = 1
    /\ ~isRegionMode
    /\ step.prev.how = "run"
    /\ step.prev.blk.g37
    /\ ContinuesSubpath
    /\ ApertureOf(currentTool) > 0
    /\ IsLongSegment(currentX - step.pre.lastX, currentY - step.pre.lastY)

\* C26: a draw in region mode appends one plain command for its target, a
\* lineTo when it continues the contour, and never a stroke rectangle,
\* whatever aperture is selected; a draw after region-end makes a stroke
\* rectangle again.
C26_NoStrokeInRegion ==
    /\ DrawInRegion =>
           /\ Len(DrawnPart) = 1
           /\ DrawnPart[1].c \in {"M", "L"}
           /\ DrawnPart[1].a = <<ToFixed3(currentX), ToFixed3(currentY)>>
           /\ ContinuesSubpath => DrawnPart[1].c = "L"
    /\ DrawAfterRegionEnd => IsStrokePolygon(DrawnPart)

\* C26's case: a draw in a region over more than the minimum length, with
\* a registered aperture selected, continuing the contour
C26_Witness ==
    /\ DrawInRegion
    /\ ContinuesSubpath
    /\ ApertureOf(currentTool) > 0
    /\ IsLongSegment(currentX - step.pre.lastX, currentY - step.pre.lastY)
    /\ DrawnPart = <<LineTo(ToFixed3(currentX), ToFixed3(currentY))>>

\* the last block drew outside region mode, with a registered aperture
\* selected, to a point more than the minimum length away from the point
\* the interpreter was at
DrawOutsideRegion ==
    /\ step.how = "run"
    /\ step.effectiveOp = 1
    /\ ~isRegionMode
    /\ ApertureOf(currentTool) > 0
    /\ IsLongSegment(currentX - step.pre.currentX,
                     currentY - step.pre.currentY)

\* C28: every such draw emits the stroke rectangle of its segment,
\* whatever came before it: a move, a draw, a flash, or nothing at all.
C28_EveryDrawStroked ==
    DrawOutsideRegion =>
        /\ IsStrokePolygon(DrawnPart)
        /\ Abs(DrawnPart[1].a[1] + DrawnPart[4].a[1]
                   - 2 * ToFixed3(step.pre.currentX)) <= 1
        /\ Abs(DrawnPart[1].a[2] + DrawnPart[4].a[2]
                   - 2 * ToFixed3(step.pre.currentY)) <= 1

\* command i of a path has an open subpath to belong to: a moveTo came
\* before it and no closePath stands between
InOpenSubpath(path, i) ==
    \E m \in 1..(i - 1) :
        /\ path[m].c = "M"
        /\ \A k \in (m + 1)..(i - 1) : path[k].c # "Z"

\* C30: the returned path is empty or a sequence of subpaths: it starts
\* with a moveTo and every other command that is not a moveTo has an open
\* subpath.
C30_WellFormedPath ==
    \/ ConvertResult.path = <<>>
    \/ /\ ConvertResult.path[1].c = "M"
       /\ \A i \in 2..Len(ConvertResult.path) :
              ConvertResult.path[i].c # "M" =>
                  InOpenSubpath(ConvertResult.path, i)

\* ------------------------------------------------------------------------
\* Properties of getArcPath (checked under SpecArc)
\* ------------------------------------------------------------------------

\* C24: the swept angle is strictly negative in clockwise mode and
\* strictly positive in counter-clockwise mode, also when the end point is
\* the start point (a full circle); the large-arc flag is 1 exactly when
\* the swept angle is more than half a turn; the sweep flag is 0 for
\* clockwise and 1 for counter-clockwise.
C24_SweptAngleSign ==
    arcCount = 1 =>
        /\ arcIn.mode = "cw" => arcOut.diff < 0
        /\ arcIn.mode = "ccw" => arcOut.diff > 0
        /\ arcOut.cmd[4] = 1 <=> Abs(arcOut.diff) > 4
        /\ arcOut.cmd[5] = IF arcIn.mode = "cw" THEN 0 ELSE 1


\* ------------------------------------------------------------------------
\* The plate of an inverted layer (checked under SpecLayers)
\* ------------------------------------------------------------------------

\* the callback inverted the layer and paper.js exported a clearance
ClearanceExported ==
    /\ LayerInverted
    /\ layerRun.lib = "ok"
    /\ layerOut.content # <<>>

\* C27: the plate the traces of an inverted layer are subtracted from,
\* the outer contour of the clearance, is the rectangle {x - p, y - p,
\* width + 2p, height + 2p} of the board bounds with p the layer's
\* invertPadding, for every value of the slider, 0 included.
C27_PlatePadding ==
    ClearanceExported =>
        GeometryBounds(layerOut.content) =
            Box(boardIn.x - layerIn.invertPadding,
                boardIn.y - layerIn.invertPadding,
                boardIn.width + 2 * layerIn.invertPadding,
                boardIn.height + 2 * layerIn.invertPadding)

\* ------------------------------------------------------------------------
\* The layers the export and the preview read (checked under SpecHost)
\* ------------------------------------------------------------------------

\* the workspace with its preview and its export button is on screen
\* (part_002 line 225)
WorkspaceShown == layers.n > 0

\* C29: whenever the workspace is on screen, the list the export and the
\* preview read was made from the current layers state.
C29_SourceIsCurrent ==
    WorkspaceShown => SourceLayers.ver = layers.ver

====
